---- MODULE Spec2Model ----
(***************************************************************************)
(* Model of zoneminder_events_motion_mqtt_gifs.py: the handler             *)
(* ZoneMinderMotionEventHandler, the two file helpers zm_get_video and     *)
(* convert_zm_video_to_gif, and the driving loop of main().                *)
(*                                                                         *)
(* Two threads of control exist: the driving loop of main() and the        *)
(* broker client's loop thread (started by loop_start), which delivers     *)
(* the five callbacks registered in __init__.  The broker client, the      *)
(* broker, the transcoding tool and the file system are the environment:   *)
(* their outcomes are nondeterministic choices.                            *)
(*                                                                         *)
(* Text is modelled as a sequence of one-character strings.                *)
(***************************************************************************)
EXTENDS Integers, Sequences, FiniteSets, TLC

\* ---------------------------------------------------------------- bounds
\* largest number of camera profiles in a configuration
MaxCameras == 2
\* largest number of publish acknowledgements the broker leaves outstanding
MaxPending == 1

\* ---------------------------------------------------------- configuration
\* config["mqtt_base_events_topic"], config["mqtt_base_gifs_topic"]
BaseEvents == <<"e">>
BaseGifs == <<"g">>

\* the camera profiles a configuration is drawn from; the profile "+" is a
\* camera whose identifier is the single-level wildcard of the broker, the
\* profile "e/a" a camera whose identifier holds the events base topic
CameraPool ==
    << [id |-> <<"a">>, event_video_prefix |-> <<"a", "-">>,
        scale |-> 480, skip_first_n_secs |-> 2, max_length_secs |-> 8],
       [id |-> <<"b">>, event_video_prefix |-> <<"b", "-">>,
        scale |-> 320, skip_first_n_secs |-> 75, max_length_secs |-> 5],
       [id |-> <<"+">>, event_video_prefix |-> <<"w", "-">>,
        scale |-> 320, skip_first_n_secs |-> 11, max_length_secs |-> 5],
       [id |-> <<"e", "/", "a">>, event_video_prefix |-> <<"c", "-">>,
        scale |-> 480, skip_first_n_secs |-> 0, max_length_secs |-> 5] >>

\* the sub-lists of the pool, in pool order, of at most MaxCameras profiles
RECURSIVE PickFrom(_, _)
PickFrom(i, n) ==
    IF i > Len(CameraPool) THEN {<<>>}
    ELSE PickFrom(i + 1, n) \cup
         (IF n = 0 THEN {}
          ELSE {<<CameraPool[i]>> \o s : s \in PickFrom(i + 1, n - 1)})

Configs == PickFrom(1, MaxCameras)

\* event identifiers the surveillance platform notifies
EventIds == {<<"1">>, <<"2">>}

\* camera identifiers a notification may carry in its topic
NotifiedIds == {<<"a">>, <<"b">>, <<"e", "/", "a">>}

\* ------------------------------------------------------------------ text
\* str.replace(old, ''): every non-overlapping occurrence of old, scanning
\* from the left, is removed
RECURSIVE Replace(_, _)
Replace(s, old) ==
    IF Len(s) < Len(old) THEN s
    ELSE IF SubSeq(s, 1, Len(old)) = old
         THEN Replace(SubSeq(s, Len(old) + 1, Len(s)), old)
         ELSE <<Head(s)>> \o Replace(Tail(s), old)

\* str(n) / '{}'.format(n) of an integer: its decimal digits, with a sign
Digit(d) == <<"0", "1", "2", "3", "4", "5", "6", "7", "8", "9">>[d + 1]

RECURSIVE Str(_)
Str(n) ==
    IF n < 0 THEN <<"-">> \o Str(0 - n)
    ELSE IF n < 10 THEN <<Digit(n)>>
    ELSE Str(n \div 10) \o <<Digit(n % 10)>>

\* str.zfill(width): zeros are put in front, after a leading sign, until
\* the text is width long
RECURSIVE ZFill(_, _)
ZFill(s, width) ==
    IF Len(s) >= width THEN s
    ELSE IF s # <<>> /\ Head(s) \in {"+", "-"}
         THEN <<Head(s)>> \o ZFill(<<"0">> \o Tail(s), width - 1)
         ELSE ZFill(<<"0">> \o s, width)

\* the broker's topic-filter match, with the single-level wildcard "+"
RECURSIVE SkipLevel(_)
SkipLevel(t) == IF t = <<>> \/ Head(t) = "/" THEN t ELSE SkipLevel(Tail(t))

RECURSIVE Matches(_, _)
Matches(f, t) ==
    IF f = <<>> THEN t = <<>>
    ELSE IF Head(f) = "+" THEN Matches(Tail(f), SkipLevel(t))
    ELSE t # <<>> /\ Head(f) = Head(t) /\ Matches(Tail(f), Tail(t))

\* ----------------------------------------------------------------- state
VARIABLES
    cameras,        \* config["zoneminder_cameras"]
    hostValid,      \* connect_async accepts config["mqtt_server"], ["mqtt_port"]
    srcFiles,       \* names present in <source-root>/<today>/, without ".mp4"
    workDir,        \* files of config["ffmpeg_working_folder"]
    sub_connected,  \* self.sub_connected
    thread,         \* the client's loop thread is running
    link,           \* the client's session: "down", "up", "refused"
    pendingDisc,    \* a DISCONNECT was sent, on_disconnect not yet delivered
    subs,           \* topic filters the broker holds for this session
    pendingSub,     \* subscribe calls not yet acknowledged
    pendingPub,     \* publish calls not yet acknowledged
    cb,             \* callback the loop thread is in
    oc,             \* the current / last on_connect invocation
    od,             \* the on_disconnect invocation the loop thread is in
    msgPc,          \* position inside on_message
    ev,             \* the current / last on_message invocation
    pcMain,         \* position of the driving loop
    lastRead,       \* value of sub_connected read by this iteration
    slept,          \* a full sleep completed since the last connect() call
    interrupted,    \* KeyboardInterrupt was raised in the driving loop
    inflight,       \* notifications whose on_message has not returned
    awaiting,       \* on_disconnect cleared the flag, no connect() since
    waited          \* sleeps completed while awaiting

vars == <<cameras, hostValid, srcFiles, workDir, sub_connected, thread, link,
          pendingDisc, subs, pendingSub, pendingPub, cb, oc, od, msgPc,
          ev, pcMain, lastRead, slept, interrupted, inflight, awaiting,
          waited>>

envVars == <<cameras, hostValid, srcFiles>>
clientVars == <<thread, link, pendingDisc, subs, pendingSub, pendingPub>>
mainVars == <<pcMain, lastRead, slept, interrupted>>
trackVars == <<awaiting, waited>>

NoConnect == [rc |-> 0, log |-> <<>>, idx |-> 0, end |-> "none",
              failed |-> FALSE, discs |-> 0, flag |-> FALSE]
NoArgs == [input |-> <<>>, vf |-> <<>>, ss |-> <<>>, t |-> <<>>,
           output |-> <<>>]
NoEvent == [topic |-> <<>>, payload |-> <<>>, cam |-> 0, fetched |-> FALSE,
            conv |-> "none", pubs |-> <<>>, sent |-> "none", discs |-> 0,
            kind |-> "none", reported |-> "none", done |-> FALSE,
            args |-> NoArgs, wd0 |-> {}, again |-> FALSE, wrote |-> FALSE]

NoDisconnect == [rc |-> 0, prior |-> FALSE, was |-> "down"]

OutfileVideo(event_id) == event_id \o <<".", "mp4">>
OutfileGif(event_id) == event_id \o <<".", "gif">>

\* __init__ (sub_connected = False) and the state main() starts the loop in;
\* the source directory holds the clip of event "1" of every pool camera
Init ==
    /\ cameras \in Configs
    /\ hostValid \in BOOLEAN
    /\ srcFiles = {CameraPool[i].event_video_prefix \o <<"1">> :
                     i \in 1..Len(CameraPool)}
    /\ workDir = {}
    /\ sub_connected = FALSE
    /\ thread = FALSE
    /\ link = "down"
    /\ pendingDisc = FALSE
    /\ subs = {}
    /\ pendingSub = 0
    /\ pendingPub = 0
    /\ cb = "idle"
    /\ oc = NoConnect
    /\ od = NoDisconnect
    /\ msgPc = "none"
    /\ ev = NoEvent
    /\ pcMain = "check"
    /\ lastRead = "none"
    /\ slept = TRUE
    /\ interrupted = FALSE
    /\ inflight = 0
    /\ awaiting = FALSE
    /\ waited = 0

\* ------------------------------------------------------- program helpers
\* on_connect: the channel subscribed for a camera
SubscribeTopic(camera) == BaseEvents \o <<"/">> \o camera.id

\* publish_gif: the channel a preview reference is sent on
PublishTopic(camera_topic) == BaseGifs \o <<"/">> \o camera_topic

\* on_message: '{}.gif'.format(event_id)
GifName(event_id) == event_id \o <<".", "g", "i", "f">>

\* on_message: str(message.topic).replace(base_events_topic + '/', '')
CameraIdOf(topic) == Replace(topic, BaseEvents \o <<"/">>)

\* variant: an unmatched identifier falls back to the first profile
FindCameraOrDefault(cams, camera_id) ==
    IF \E i \in 1..Len(cams) : cams[i].id = camera_id
    THEN CHOOSE i \in 1..Len(cams) :
           /\ cams[i].id = camera_id
           /\ \A j \in 1..(i - 1) : cams[j].id # camera_id
    ELSE IF Len(cams) > 0 THEN 1 ELSE 0

\* on_message: next((x for x in cameras if x["id"] == camera_id), None);
\* the index of the first match, 0 for None
FindCamera(cams, camera_id) ==
    IF \E i \in 1..Len(cams) : cams[i].id = camera_id
    THEN CHOOSE i \in 1..Len(cams) :
           /\ cams[i].id = camera_id
           /\ \A j \in 1..(i - 1) : cams[j].id # camera_id
    ELSE 0

\* zm_get_video: the name of the source clip under <source-root>/<today>/
SourceName(event_video_prefix, event_id) == event_video_prefix \o event_id

\* zm_get_video: copyfile(source_video, outfile_video)
WorkDirAfterFetch(wd, event_id) == wd \cup {OutfileVideo(event_id)}

\* variant: the tool's output is written beside the earlier preview, under
\* a new name
WorkDirAfterToolKeeping(wd, event_id, wrote) ==
    wd \cup (IF ~wrote THEN {}
             ELSE IF OutfileGif(event_id) \in wd
             THEN {OutfileGif(event_id \o <<"_">>)}
             ELSE {OutfileGif(event_id)})

\* convert_zm_video_to_gif: the working folder while subprocess.call waits
\* for the tool; wrote tells whether the tool writes its output file (-y:
\* over an earlier one)
WorkDirAfterTool(wd, event_id, wrote) ==
    wd \cup (IF wrote THEN {OutfileGif(event_id)} ELSE {})

\* convert_zm_video_to_gif: subprocess.call returns, then
\* os.remove(input_video).  outcome "raised" is subprocess.call raising
\* (the tool cannot be run): the statement after it is skipped.
WorkDirAfterConvert(wd, event_id, outcome) ==
    IF outcome = "raised" THEN wd ELSE wd \ {OutfileVideo(event_id)}

\* convert_zm_video_to_gif: the arguments handed to the tool:
\* -i input -vf fps=15,scale=<scale>:-1:flags=lanczos
\* -ss 00:00:<skip, zero-filled to two characters> -t <max> -y output
TranscoderArgs(scale, skip_first_n_secs, max_length_secs, input_video, output_gif) ==
    [input |-> input_video,
     vf |-> <<"fps=15,scale=">> \o Str(scale) \o <<":-1:flags=lanczos">>,
     ss |-> <<"0", "0", ":", "0", "0", ":">> \o ZFill(Str(skip_first_n_secs), 2),
     t |-> Str(max_length_secs),
     output |-> output_gif]

\* variant: a non-zero exit status is raised as an exception
AfterConvertEscalating(outcome) ==
    IF outcome = "zero" THEN "publish" ELSE "except"

\* variant: the return code is not tested before publishing
AfterConvertUntested(outcome) ==
    IF outcome = "raised" THEN "except" ELSE "publish"

\* on_message: where control goes after convert_zm_video_to_gif: the
\* publish on a zero exit status, the error log (and return) on a non-zero
\* one, the except clause when the call raised
AfterConvert(outcome) ==
    IF outcome = "zero" THEN "publish"
    ELSE IF outcome = "raised" THEN "except"
    ELSE "return"

\* main: if not zm_events_handler.sub_connected: connect()
AfterCheck(flag) == IF flag THEN "sleep" ELSE "connect_async"

\* variant: connect() has no except clause, the exception ends main()
AfterConnectAsyncUncaught(outcome) ==
    IF outcome = "raised" THEN "ended" ELSE "loop_start"

\* connect: the except clause catches what connect_async raises
AfterConnectAsync(outcome) ==
    IF outcome = "raised" THEN "connect_except" ELSE "loop_start"

\* variant: the sleep is skipped after a connect() call
AfterConnectNoSleep == "check"

\* main: time.sleep(10) follows the if statement
AfterConnect == "sleep"

\* variant: on_message hands its work to another thread and returns
BusyUnlessMessage(c) == c \notin {"idle", "on_message"}

\* the callbacks run in the client's loop thread, each to its end: the
\* thread delivers the next one only when it is in none
Busy(c) == c # "idle"

\* ------------------------------------------------------ the broker client
\* variant: disconnect() does not reach the client
ClientDisconnectNoop(l, p) == p

\* mqtt_client.disconnect() as called by disconnect(): with a session open
\* the DISCONNECT is sent and on_disconnect follows; without one the call
\* fails (error result or exception, logged by disconnect()) and changes
\* nothing
ClientDisconnect(l, p) == IF l # "down" THEN TRUE ELSE p

\* variant: disconnect() marks the handler as not connected at once
FlagAfterDisconnectCallClearing(flag) == FALSE

\* disconnect(): self.sub_connected after the call; the method only logs
\* and calls mqtt_client.disconnect()
FlagAfterDisconnectCall(flag) == flag

Min(a, b) == IF a < b THEN a ELSE b

\* ------------------------------------------------------------ on_connect
\* the broker answers the connection attempt of the running loop thread
\* with result code rc; the thread enters on_connect
OnConnect(rc) ==
    /\ thread /\ ~Busy(cb) /\ link = "down"
    /\ link' = (IF rc = 0 THEN "up" ELSE "refused")
    /\ cb' = "on_connect"
    /\ oc' = [NoConnect EXCEPT !.rc = rc, !.idx = 1, !.end = "running"]
    /\ UNCHANGED <<od, envVars, workDir, sub_connected, thread, pendingDisc, subs,
                   pendingSub, pendingPub, msgPc, ev, mainVars, inflight,
                   trackVars>>

\* variant: a failed subscription is skipped and the loop goes on
AfterSubscribeSkipping(outcome) == "next"

\* on_connect: the for loop stands inside the try: a subscribe call that
\* raises leaves the loop for the except clause
AfterSubscribe(outcome) == IF outcome = "ok" THEN "next" ELSE "except"

\* one iteration of the for loop: mqtt_client.subscribe(topic) returns or
\* raises; raising ends the callback in its except clause (disconnect())
OnConnectSubscribe(outcome) ==
    /\ cb = "on_connect" /\ oc.idx <= Len(cameras)
    /\ LET topic == SubscribeTopic(cameras[oc.idx])
           o == IF outcome = "ok" THEN [oc EXCEPT !.log = Append(@, topic)]
                ELSE [oc EXCEPT !.failed = TRUE]
           sent == outcome = "ok" /\ link = "up"
       IN
       /\ subs' = (IF sent THEN subs \cup {topic} ELSE subs)
       /\ pendingSub' = (IF sent THEN pendingSub + 1 ELSE pendingSub)
       /\ IF AfterSubscribe(outcome) = "next"
          THEN /\ oc' = [o EXCEPT !.idx = @ + 1]
               /\ UNCHANGED <<cb, pendingDisc, sub_connected>>
          ELSE /\ oc' = [o EXCEPT !.end = "raised", !.discs = @ + 1,
                                  !.flag = FlagAfterDisconnectCall(sub_connected)]
               /\ pendingDisc' = ClientDisconnect(link, pendingDisc)
               /\ sub_connected' = FlagAfterDisconnectCall(sub_connected)
               /\ cb' = "idle"
    /\ UNCHANGED <<od, envVars, workDir, thread, link, pendingPub,
                   msgPc, ev, mainVars, inflight, trackVars>>

\* after the loop: self.sub_connected = True
OnConnectDone ==
    /\ cb = "on_connect" /\ oc.idx > Len(cameras)
    /\ sub_connected' = TRUE
    /\ oc' = [oc EXCEPT !.end = "ok", !.flag = TRUE]
    /\ cb' = "idle"
    /\ awaiting' = FALSE /\ waited' = 0
    /\ UNCHANGED <<od, envVars, workDir, clientVars, msgPc, ev, mainVars, inflight>>

\* --------------------------------------------------------- on_disconnect
\* variant: only an unexpected disconnection clears the flag
FlagAfterUnexpectedDisconnect(rc, flag) == IF rc # 0 THEN FALSE ELSE flag

\* on_disconnect: self.sub_connected = False, whatever rc is
FlagAfterDisconnect(rc, flag) == FALSE

\* the session ends: requested (rc = 0, after a DISCONNECT was sent) or
\* unexpected (rc # 0); on_disconnect clears the flag
OnDisconnect(rc) ==
    /\ thread /\ ~Busy(cb) /\ link # "down"
    /\ rc = 0 => pendingDisc
    /\ sub_connected' = FlagAfterDisconnect(rc, sub_connected)
    /\ od' = [rc |-> rc, prior |-> sub_connected, was |-> link]
    /\ link' = "down"
    /\ pendingDisc' = FALSE
    /\ subs' = {} /\ pendingSub' = 0 /\ pendingPub' = 0
    /\ cb' = "on_disconnect"
    /\ awaiting' = TRUE /\ waited' = 0
    /\ UNCHANGED <<envVars, workDir, thread, oc, msgPc, ev, mainVars, inflight>>

\* on_disconnect, last statement: self.mqtt_client.loop_stop()
LoopStop ==
    /\ cb = "on_disconnect"
    /\ thread' = FALSE
    /\ od' = NoDisconnect
    /\ cb' = "idle"
    /\ UNCHANGED <<envVars, workDir, sub_connected, link, pendingDisc, subs,
                   pendingSub, pendingPub, oc, msgPc, ev, mainVars, inflight,
                   trackVars>>

\* ------------------------------------------- on_subscribe and on_publish
OnSubscribe ==
    /\ thread /\ ~Busy(cb) /\ link = "up" /\ pendingSub > 0
    /\ pendingSub' = pendingSub - 1
    /\ sub_connected' = TRUE
    /\ awaiting' = FALSE /\ waited' = 0
    /\ UNCHANGED <<envVars, workDir, thread, link, pendingDisc, subs,
                   pendingPub, cb, oc, od, msgPc, ev, mainVars, inflight>>

OnPublish ==
    /\ thread /\ ~Busy(cb) /\ link = "up" /\ pendingPub > 0
    /\ pendingPub' = pendingPub - 1
    /\ sub_connected' = TRUE
    /\ awaiting' = FALSE /\ waited' = 0
    /\ UNCHANGED <<envVars, workDir, thread, link, pendingDisc, subs,
                   pendingSub, cb, oc, od, msgPc, ev, mainVars, inflight>>

\* ------------------------------------------------------------ on_message
\* self.disconnect() called on the loop thread by on_message / publish_gif
Escalate(e, kind) == [e EXCEPT !.kind = kind, !.discs = @ + 1]

\* on_message returns: the loop thread is free again
Return(e) ==
    /\ ev' = [e EXCEPT !.done = TRUE, !.wd0 = {}, !.again = FALSE,
                       !.wrote = FALSE]
    /\ msgPc' = "none"
    /\ cb' = "idle"
    /\ inflight' = inflight - 1

\* the broker delivers a notification on a channel the session subscribed
OnMessage(topic, payload) ==
    /\ thread /\ ~Busy(cb) /\ link = "up"
    /\ \E f \in subs : Matches(f, topic)
    /\ pendingPub < MaxPending
    /\ cb' = "on_message"
    /\ msgPc' = "resolve"
    /\ ev' = [NoEvent EXCEPT !.topic = topic, !.payload = payload,
                             !.wd0 = workDir,
                             !.again = (ev.done /\ ev.conv = "zero"
                                        /\ ev.payload = payload)]
    /\ inflight' = Min(inflight + 1, 2)
    /\ UNCHANGED <<envVars, workDir, sub_connected, clientVars, oc, od, mainVars,
                   trackVars>>

\* camera_id, camera, event_video_prefix = camera["event_video_prefix"]:
\* subscripting None raises
OnMessageResolve ==
    /\ cb = "on_message" /\ msgPc = "resolve"
    /\ LET c == FindCamera(cameras, CameraIdOf(ev.topic)) IN
       IF c = 0
       THEN /\ ev' = [ev EXCEPT !.kind = "unknown_camera"]
            /\ msgPc' = "except"
       ELSE /\ ev' = [ev EXCEPT !.cam = c]
            /\ msgPc' = "fetch"
    /\ UNCHANGED <<envVars, workDir, sub_connected, clientVars, cb, oc, od,
                   mainVars, inflight, trackVars>>

\* zm_get_video: copyfile raises when the source clip is absent
OnMessageFetch ==
    /\ cb = "on_message" /\ msgPc = "fetch"
    /\ IF SourceName(cameras[ev.cam].event_video_prefix, ev.payload) \in srcFiles
       THEN /\ workDir' = WorkDirAfterFetch(workDir, ev.payload)
            /\ ev' = [ev EXCEPT !.fetched = TRUE]
            /\ msgPc' = "convert"
       ELSE /\ ev' = [ev EXCEPT !.kind = "missing_source"]
            /\ msgPc' = "except"
            /\ UNCHANGED workDir
    /\ UNCHANGED <<envVars, sub_connected, clientVars, cb, oc, od, mainVars,
                   inflight, trackVars>>

\* convert_zm_video_to_gif up to subprocess.call: the tool is started with
\* the arguments and the loop thread waits inside the call while the tool
\* runs; the driving loop goes on meanwhile
OnMessageConvertCall(wrote) ==
    /\ cb = "on_message" /\ msgPc = "convert"
    /\ workDir' = WorkDirAfterTool(workDir, ev.payload, wrote)
    /\ LET c == cameras[ev.cam] IN
       ev' = [ev EXCEPT !.args = TranscoderArgs(c.scale, c.skip_first_n_secs,
                                     c.max_length_secs,
                                     OutfileVideo(ev.payload),
                                     OutfileGif(ev.payload)),
                        !.wrote = wrote]
    /\ msgPc' = "call"
    /\ UNCHANGED <<envVars, sub_connected, clientVars, cb, oc, od, mainVars,
                   inflight, trackVars>>

\* subprocess.call returns or raises, os.remove(input_video), and the test
\* of the return code; a non-zero return code is logged and on_message
\* returns.  The tool has created its output file when it exits with 0,
\* and has written nothing when it could not be started.
OnMessageConvert(outcome) ==
    /\ cb = "on_message" /\ msgPc = "call"
    /\ outcome = "zero" => ev.wrote
    /\ outcome = "raised" => ~ev.wrote
    /\ workDir' = WorkDirAfterConvert(workDir, ev.payload, outcome)
    /\ LET e == [ev EXCEPT !.conv = outcome,
                           !.kind = IF outcome = "zero" THEN @
                                    ELSE IF outcome = "raised" THEN "tool_failed"
                                    ELSE "nonzero_exit",
                           !.reported = IF outcome = "nonzero"
                                        THEN "invalid_ffmpeg" ELSE @]
       IN IF AfterConvert(outcome) = "return"
          THEN Return(e)
          ELSE /\ ev' = e
               /\ msgPc' = AfterConvert(outcome)
               /\ UNCHANGED <<cb, inflight>>
    /\ UNCHANGED <<envVars, sub_connected, clientVars, oc, od, mainVars, trackVars>>

\* publish_gif: return True after any publish call that did not raise, None
\* (falsy) from the except clause
PublishGif(outcome) == outcome # "raised"

\* on_message: what is logged for the value publish_gif returned
ReportPublish(public_retcode) ==
    IF public_retcode THEN "done" ELSE "invalid_publish"

\* publish_gif(camera["id"], '<event_id>.gif'): mqtt_client.publish sends
\* the message ("sent"), returns an error result without sending ("error":
\* publish_gif still returns True), or raises ("raised": publish_gif calls
\* disconnect() and returns None); on_message logs and returns
OnMessagePublish(outcome) ==
    /\ cb = "on_message" /\ msgPc = "publish"
    /\ LET msg == [topic |-> PublishTopic(cameras[ev.cam].id),
                   payload |-> GifName(ev.payload)]
           e == [ev EXCEPT !.pubs = Append(@, msg), !.sent = outcome,
                           !.reported = ReportPublish(PublishGif(outcome))]
       IN IF outcome = "raised"
          THEN /\ Return(Escalate(e, "publish_failed"))
               /\ pendingDisc' = ClientDisconnect(link, pendingDisc)
               /\ sub_connected' = FlagAfterDisconnectCall(sub_connected)
               /\ UNCHANGED pendingPub
          ELSE /\ Return(e)
               /\ pendingPub' = (IF outcome = "sent" THEN pendingPub + 1
                                 ELSE pendingPub)
               /\ UNCHANGED <<pendingDisc, sub_connected>>
    /\ UNCHANGED <<envVars, workDir, thread, link, subs,
                   pendingSub, oc, od, mainVars, trackVars>>

\* except Exception: logging.error(...); self.disconnect()
OnMessageExcept ==
    /\ cb = "on_message" /\ msgPc = "except"
    /\ Return(Escalate(ev, ev.kind))
    /\ pendingDisc' = ClientDisconnect(link, pendingDisc)
    /\ sub_connected' = FlagAfterDisconnectCall(sub_connected)
    /\ UNCHANGED <<envVars, workDir, thread, link, subs,
                   pendingSub, pendingPub, oc, od, mainVars, trackVars>>

\* ------------------------------------------------------ the driving loop
\* while True: if not zm_events_handler.sub_connected: ...
MainCheck ==
    /\ pcMain = "check"
    /\ lastRead' = (IF sub_connected THEN "connected" ELSE "not_connected")
    /\ pcMain' = AfterCheck(sub_connected)
    /\ UNCHANGED <<envVars, workDir, sub_connected, clientVars, cb, oc, od, msgPc,
                   ev, slept, interrupted, inflight, trackVars>>

\* connect(): mqtt_client.connect_async(server, port) returns, or raises on
\* a server name or port it does not accept
MainConnectAsync ==
    /\ pcMain = "connect_async"
    /\ pcMain' = AfterConnectAsync(IF hostValid THEN "ok" ELSE "raised")
    /\ slept' = FALSE
    /\ awaiting' = FALSE /\ waited' = 0
    /\ UNCHANGED <<envVars, workDir, sub_connected, clientVars, cb, oc, od, msgPc,
                   ev, lastRead, interrupted, inflight>>

\* connect(): mqtt_client.loop_start() starts the loop thread unless one runs
MainLoopStart ==
    /\ pcMain = "loop_start"
    /\ thread' = TRUE
    /\ pcMain' = AfterConnect
    /\ UNCHANGED <<envVars, workDir, sub_connected, link, pendingDisc, subs,
                   pendingSub, pendingPub, cb, oc, od, msgPc, ev, lastRead, slept,
                   interrupted, inflight, trackVars>>

\* connect(): except Exception: logging.error(...); self.disconnect()
MainConnectExcept ==
    /\ pcMain = "connect_except"
    /\ pendingDisc' = ClientDisconnect(link, pendingDisc)
    /\ sub_connected' = FlagAfterDisconnectCall(sub_connected)
    /\ pcMain' = AfterConnect
    /\ UNCHANGED <<envVars, workDir, thread, link, subs,
                   pendingSub, pendingPub, cb, oc, od, msgPc, ev, lastRead, slept,
                   interrupted, inflight, trackVars>>

\* time.sleep(10) runs to its end
MainSleep ==
    /\ pcMain = "sleep"
    /\ pcMain' = "check"
    /\ lastRead' = "none"
    /\ slept' = TRUE
    /\ waited' = (IF awaiting THEN Min(waited + 1, 2) ELSE waited)
    /\ UNCHANGED <<envVars, workDir, sub_connected, clientVars, cb, oc, od, msgPc,
                   ev, interrupted, inflight, awaiting>>

\* KeyboardInterrupt reaches the try of main(): the loop ends
Interrupt ==
    /\ pcMain # "ended"
    /\ pcMain' = "ended"
    /\ interrupted' = TRUE
    /\ UNCHANGED <<envVars, workDir, sub_connected, clientVars, cb, oc, od, msgPc,
                   ev, lastRead, slept, inflight, trackVars>>

\* -------------------------------------------------------- specifications
Topics == {SubscribeTopic([id |-> i]) : i \in NotifiedIds}

MainStep ==
    \/ MainCheck
    \/ MainConnectAsync
    \/ MainLoopStart
    \/ MainConnectExcept
    \/ MainSleep

CallbackStep ==
    \/ \E outcome \in {"ok", "raised"} : OnConnectSubscribe(outcome)
    \/ OnConnectDone
    \/ LoopStop
    \/ OnMessageResolve
    \/ OnMessageFetch
    \/ \E wrote \in BOOLEAN : OnMessageConvertCall(wrote)
    \/ \E outcome \in {"zero", "nonzero", "raised"} : OnMessageConvert(outcome)
    \/ \E outcome \in {"sent", "error", "raised"} : OnMessagePublish(outcome)
    \/ OnMessageExcept

Delivery ==
    \/ \E rc \in {0, 5} : OnConnect(rc)
    \/ \E rc \in {0, 1} : OnDisconnect(rc)
    \/ OnSubscribe
    \/ OnPublish
    \/ \E topic \in Topics, payload \in EventIds : OnMessage(topic, payload)

Next == MainStep \/ CallbackStep \/ Delivery \/ Interrupt

Spec == Init /\ [][Next]_vars

\* the scheduling: each thread keeps running (the driving loop until it is
\* interrupted, a callback until it returns), and a requested disconnect is
\* eventually answered by on_disconnect
FairSpec ==
    /\ Spec
    /\ WF_vars(MainStep)
    /\ WF_vars(CallbackStep)
    /\ SF_vars(OnDisconnect(0))

\* ================================================================ claims
EventsChannel(i) == BaseEvents \o <<"/">> \o cameras[i].id
Unmatched(topic) ==
    \A i \in 1..Len(cameras) : cameras[i].id # Replace(topic, BaseEvents \o <<"/">>)

\* C1 as stated: an on_connect callback of a successful connection in
\* which every subscribe call returns issues exactly N subscribe calls, one
\* per channel <events-base-topic>/<camera.id>; each subscribe call is
\* issued only once the connection state reads connected, and none is
\* issued outside on_connect.
C1_SubscribeAfterConnected ==
    /\ (oc.rc = 0 /\ oc.end = "ok") =>
          /\ Len(oc.log) = Len(cameras)
          /\ \A i \in 1..Len(oc.log) : oc.log[i] = EventsChannel(i)
    /\ (cb = "on_connect" /\ oc.rc = 0 /\ oc.log # <<>>) => sub_connected
    /\ oc.end = "none" => oc.log = <<>>

\* C2 as stated: each of the four kinds of processing error ends with a
\* disconnect() call.
C2_AllErrorsDisconnect ==
    (ev.done /\ ev.kind \in {"unknown_camera", "missing_source",
                             "nonzero_exit", "publish_failed"})
        => ev.discs >= 1

\* C2 amended: an unknown camera, a missing source file, a transcoder that
\* cannot be run and a publish call that raises each end with exactly one
\* disconnect() call; a non-zero transcoder exit status is only logged and
\* ends with no disconnect() call.
C2_ErrorsDisconnectExceptNonZero ==
    ev.done =>
        /\ ev.kind \in {"unknown_camera", "missing_source", "tool_failed",
                        "publish_failed"} => ev.discs = 1
        /\ ev.kind \in {"nonzero_exit", "none"} => ev.discs = 0

C2_Witness ==
    /\ ev.done /\ ev.kind = "nonzero_exit" /\ ev.discs = 0 /\ ~pendingDisc
    /\ link = "up"

\* C4: a notification whose derived camera identifier matches no profile
\* leads to no fetch, no transcode and no publish, no profile is used for
\* it, and its processing ends with a disconnect() call.
C4_UnknownCamera ==
    (ev.topic # <<>> /\ msgPc # "resolve" /\ Unmatched(ev.topic)) =>
        /\ ev.kind = "unknown_camera"
        /\ ev.cam = 0
        /\ ~ev.fetched /\ ev.conv = "none" /\ ev.pubs = <<>>
        /\ ev.done => ev.discs = 1

C4_Witness ==
    /\ ev.done /\ ev.kind = "unknown_camera" /\ ev.discs = 1 /\ pendingDisc

C3_MissingSourceReconnects ==
    /\ [](ev.kind = "missing_source" => (ev.pubs = <<>> /\ ~ev.fetched))
    /\ ((msgPc = "except" /\ ev.kind = "missing_source") ~> ~sub_connected)
    /\ [](awaiting => (~sub_connected /\ waited <= 1))
    /\ (awaiting ~> (~awaiting \/ interrupted))

C3_Witness ==
    /\ ev.done /\ ev.kind = "missing_source" /\ ev.discs = 1
    /\ awaiting /\ waited = 1 /\ pcMain = "connect_async"

\* C6: the driving loop ends only by an interrupt, never by a failure of
\* connect() or disconnect(); every poll that reads the flag as not
\* connected goes on to call connect(); and if the flag stays not connected
\* for ever, connect() is called infinitely often.
C6_RetryForever ==
    /\ [](pcMain = "ended" => interrupted)
    /\ [][(pcMain = "check" /\ pcMain' # "check" /\ ~sub_connected
             /\ ~interrupted') => pcMain' = "connect_async"]_vars
    /\ (<>[](~sub_connected /\ ~interrupted) => []<>(pcMain = "connect_async"))

C6_Witness ==
    /\ ~hostValid /\ pcMain = "sleep" /\ lastRead = "not_connected" /\ ~slept
    /\ ~thread /\ ~sub_connected /\ ~interrupted

\* C7: connect() is called only in an iteration that read the flag as not
\* connected, and a full sleep lies between any two connect() calls.
C7_NoBusyLoop ==
    /\ pcMain = "connect_async" => (lastRead = "not_connected" /\ slept)
    /\ pcMain \in {"loop_start", "connect_except"} => (lastRead = "not_connected" /\ ~slept)
    /\ (pcMain = "sleep" /\ lastRead = "connected") => slept

C7_Witness ==
    /\ pcMain = "connect_async" /\ slept /\ awaiting /\ waited = 1

\* C8 as stated: the driving loop never calls connect() while the
\* connection is established.
C8_NoConnectWhileEstablished ==
    [][(pcMain = "connect_async" /\ pcMain' # pcMain /\ ~interrupted')
          => link # "up"]_vars

\* C9 as stated: after every Transcoder invocation the working copy of the
\* clip is gone, so no clip copy exists while no notification is processed.
C9_ClipCopyRemoved ==
    /\ (ev.fetched /\ ev.conv # "none") => OutfileVideo(ev.payload) \notin workDir
    /\ cb # "on_message" => \A f \in workDir : f[Len(f)] # "mp4"

\* C10: at most one notification is being processed at any moment, the
\* next one is taken only when the previous on_message has returned, and
\* no other callback runs while a notification is being processed.
C10_OneAtATime ==
    /\ inflight <= 1
    /\ inflight = 1 <=> cb = "on_message"
    /\ cb = "on_message" <=> msgPc # "none"
    /\ cb = "on_message" => ~ev.done
    /\ cb \in {"on_connect", "on_disconnect"} => inflight = 0

C10_Witness ==
    /\ cb = "on_message" /\ msgPc = "convert" /\ inflight = 1
    /\ pendingSub > 0 /\ pendingDisc

\* C11: when a subscribe call of on_connect raises, disconnect() is called
\* at once, no subscribe call is issued for the cameras after it, and that
\* on_connect returns without setting the connection flag.
C11_SubscribeFailFast ==
    oc.failed =>
        /\ oc.end = "raised" /\ cb # "on_connect"
        /\ oc.discs = 1
        /\ oc.idx <= Len(cameras) /\ Len(oc.log) = oc.idx - 1
        /\ ~oc.flag

C11_Witness ==
    /\ oc.failed /\ oc.idx = 2 /\ Len(oc.log) = 1 /\ Len(cameras) = 2
    /\ pendingDisc /\ ~sub_connected

\* C12 as stated: publish_gif reports success exactly when the send call
\* succeeded, so an event is reported done only if its message was sent.
C12_PublishResultReported ==
    (ev.done /\ ev.pubs # <<>>) => (ev.reported = "done" <=> ev.sent = "sent")

\* C13 as stated: the delivery of a publish acknowledgement leaves the
\* connection flag as it was.
C13_PublishAckKeepsState ==
    [][(pendingPub' < pendingPub /\ link' = "up")
          => sub_connected' = sub_connected]_vars

\* C14: on_disconnect clears the connection flag for every result code and
\* from every prior state, and stops the loop thread; once the callback has
\* returned the flag reads not connected until connect() is called again.
C14_DisconnectClearsFlag ==
    /\ cb = "on_disconnect" => (~sub_connected /\ link = "down" /\ thread)
    /\ ~thread => (~sub_connected /\ link = "down" /\ cb = "idle")

C14_Witness ==
    /\ cb = "on_disconnect" /\ od.rc = 0 /\ od.prior /\ od.was = "up"
    /\ ~sub_connected

\* HH:MM:SS of a number of seconds
Pad2(n) == IF n < 10 THEN <<"0">> \o Str(n) ELSE Str(n)
HMS(n) == Pad2(n \div 3600) \o <<":">> \o Pad2((n \div 60) % 60)
            \o <<":">> \o Pad2(n % 60)

\* C15 as stated: the tool is invoked with frame rate 15, the width of the
\* profile's scale with automatic height, the seek offset of the profile's
\* skip seconds written as HH:MM:SS, and the duration of the profile's
\* maximum length; each argument depends on its own parameter only.
C15_TranscoderArguments ==
    ev.conv # "none" =>
        LET c == cameras[ev.cam] IN
        /\ ev.args.vf = <<"fps=15,scale=">> \o Str(c.scale)
                           \o <<":-1:flags=lanczos">>
        /\ ev.args.ss = HMS(c.skip_first_n_secs)
        /\ ev.args.t = Str(c.max_length_secs)

\* C16: a notification for the event identifier whose processing has just
\* succeeded, processed successfully again, writes the preview to the path
\* made of the event identifier alone and leaves the working folder with
\* the files it held after the first processing: the preview, and no clip
\* copy.
C16_ReprocessingIdempotent ==
    (cb = "on_message" /\ ev.again /\ ev.conv = "zero") =>
        /\ ev.args.output = OutfileGif(ev.payload)
        /\ workDir = ev.wd0
        /\ OutfileGif(ev.payload) \in workDir
        /\ OutfileVideo(ev.payload) \notin workDir

C16_Witness ==
    /\ cb = "on_message" /\ ev.again /\ ev.conv = "zero"
    /\ workDir = {OutfileGif(ev.payload)}

\* C17 as stated: a successful fetch creates exactly one new file in the
\* working folder, a failed fetch creates none, and the source folder is
\* never changed.
C17_FetchCreatesOneFile ==
    /\ (cb = "on_message" /\ msgPc = "convert") =>
          /\ OutfileVideo(ev.payload) \notin ev.wd0
          /\ workDir = ev.wd0 \cup {OutfileVideo(ev.payload)}
    /\ (cb = "on_message" /\ ev.kind = "missing_source") => workDir = ev.wd0
    /\ srcFiles = {CameraPool[i].event_video_prefix \o <<"1">> :
                      i \in 1..Len(CameraPool)}

\* C18: the connection flag changes only in a step of on_connect (its last
\* statement), on_disconnect, on_subscribe or on_publish; connect(),
\* disconnect(), publish_gif(), on_message and the driving loop leave it
\* as it is, so after a disconnect() requested by a failed step the flag
\* keeps its value until on_disconnect is delivered.
C18_FlagWrittenByCallbacks ==
    [][sub_connected' # sub_connected =>
          \/ cb = "on_connect" /\ oc'.end = "ok"
          \/ cb = "idle" /\ cb' = "on_disconnect"
          \/ cb = "idle" /\ cb' = "idle" /\ pendingSub' = pendingSub - 1
          \/ cb = "idle" /\ cb' = "idle" /\ pendingPub' = pendingPub - 1]_vars

C18_Witness ==
    /\ ev.done /\ ev.discs = 1 /\ cb = "idle"
    /\ pendingDisc /\ sub_connected

\* C19 as stated: when on_connect is delivered with a non-zero result code
\* no subscribe call is issued and the flag is not set to connected, so the
\* flag is true only while the broker connection is established.
C19_RefusedConnectionIgnored ==
    /\ oc.rc # 0 => (oc.log = <<>> /\ ~oc.failed /\ ~oc.flag)
    /\ sub_connected => link = "up"

\* C20 as stated: the camera identifier derived from the channel
\* <events-base-topic>/<c.id> of a configured camera c is c.id, and the
\* notification resolves to the profile of the camera the channel was
\* subscribed for, also when c.id holds the text '<events-base-topic>/'.
C20_DerivedIdIsCameraId ==
    \A i \in 1..Len(cameras) :
        (ev.topic = EventsChannel(i) /\ msgPc \notin {"none", "resolve"}) =>
            /\ CameraIdOf(ev.topic) = cameras[i].id
            /\ ev.cam # 0
            /\ cameras[ev.cam].id = cameras[i].id

====
